---- MODULE Spec2Model ----
(***************************************************************************)
(* Model of the DeckHand room synchronisation server (src/server.ts) and   *)
(* of the client side room context (src/contexts/RoomContext.tsx with the  *)
(* useSocket hook).                                                        *)
(*                                                                         *)
(* The server keeps three JavaScript Maps (rooms, deviceInfo, roomStates)  *)
(* and the socket.io adapter keeps, for every socket, the socket.io rooms  *)
(* it joined (socket.join / socket.leave).  Maps are functions whose       *)
(* DOMAIN is the key set; a JavaScript Set is a duplicate-free sequence in *)
(* insertion order.  Date.now() values are kept only as the order of the   *)
(* joinedAt stamps (joinOrder); createdAt / lastActivity are never read by *)
(* the program and are left out.                                           *)
(***************************************************************************)
EXTENDS Integers, Sequences, FiniteSets, TLC

\* ---- bounds of the model ----
\* slide numbers sent by clients range over 0..MaxSlide; a deck has MaxSlide slides
MaxSlide == 2

\* packets from the server not yet delivered on one connection
MaxQueue == 2
\* packets of one client not yet handled by the server, or buffered by a
\* socket that is not connected
MaxPending == 1

Conns == {"c1", "c2"}
Clients == {"k1", "k2"}
Rooms == {"A", "B"}
SlideVals == 0..MaxSlide
\* totalSlides values sent by clients: 0 (not known yet) or the size of the deck
TotalVals == {0, MaxSlide}
\* an optional totalSlides of a payload: <<>> is undefined, <<t>> is t
OptTotals == {<<>>} \cup {<<t>> : t \in TotalVals}
\* the role and the device name a device sends with join-room and update-role
RoleOf(c) == IF c = "c1" THEN "stage" ELSE "remote"
NameOf(c) == IF c = "c1" THEN "N" ELSE ""

NoSource == "none"
NoRoom == "none"
\* JavaScript's undefined, for a payload field that is missing: as a number
\* field (an integer no payload carries) and as a roomId
Undefined == 0 - (MaxSlide + 2)
UndefinedRoom == "undefined"

VARIABLES
  conn,        \* socket id -> "new" | "open" | "closed"
  rooms,       \* Map roomId -> Set of socket ids (insertion order)
  deviceInfo,  \* Map socket id -> [role, name, roomId]
  joinOrder,   \* socket ids of deviceInfo by increasing joinedAt
  roomStates,  \* Map roomId -> [slideIndex, totalSlides]
  sioRooms,    \* socket id -> socket.io rooms the socket is in
  emitted,     \* what the last handler emitted, in order
  lastEvent,   \* the event the last handler processed
  prevEvent,   \* the event processed before lastEvent (kept by SpecLWW only)
  \* the clients (RoomProvider with useSocket), used by SpecClient only
  sock,         \* client -> id of its connected socket, NoSource, or Unmounted
  cRoomId,      \* client -> roomState.roomId (NoRoom is null)
  currentSlide, \* client -> roomState.currentSlide
  cTotalSlides, \* client -> roomState.totalSlides
  isConnected,  \* client -> isConnected
  timerArmed,   \* client -> the auto-rejoin timeout is pending
  sendBuffer,   \* client -> packets emitted while the socket was not connected
  c2s,          \* socket id -> packets on their way to the server, in order
  s2c           \* socket id -> packets on their way to the client, in order

serverVars == <<conn, rooms, deviceInfo, joinOrder, roomStates, sioRooms, emitted, lastEvent>>
clientVars ==
  <<sock, cRoomId, currentSlide, cTotalSlides, isConnected, timerArmed, sendBuffer, c2s, s2c>>
vars == <<serverVars, prevEvent, clientVars>>

\* ---- JavaScript Map / Set primitives ----
MapSet(m, k, v) == [x \in (DOMAIN m) \cup {k} |-> IF x = k THEN v ELSE m[x]]

MapDelete(m, k) == [x \in (DOMAIN m) \ {k} |-> m[x]]

EmptyMap == [x \in {} |-> 0]

Elems(s) == {s[i] : i \in 1..Len(s)}

SetAdd(s, e) == IF e \in Elems(s) THEN s ELSE Append(s, e)

SetDelete(s, e) == SelectSeq(s, LAMBDA x : x /= e)

\* ---- the server's state as one value, and what a handler returns ----
Srv ==
  [rooms |-> rooms, deviceInfo |-> deviceInfo, joinOrder |-> joinOrder,
   roomStates |-> roomStates, sioRooms |-> sioRooms]

Result(st, out) == [st |-> st, out |-> out]

Emission(type, to, roomId, slideIndex, totalSlides, sourceId, devices) ==
  [type |-> type, to |-> to, roomId |-> roomId, slideIndex |-> slideIndex,
   totalSlides |-> totalSlides, sourceId |-> sourceId, devices |-> devices,
   totalDevices |-> Len(devices)]

Event(type, c, roomId, slideIndex, totalSlides) ==
  [type |-> type, conn |-> c, roomId |-> roomId, slideIndex |-> slideIndex,
   totalSlides |-> totalSlides]

NoEvent == Event("none", NoSource, NoRoom, 0, <<>>)

\* ---- helpers of the server ----
DeviceEntry(info, id) == [id |-> id, role |-> info[id].role, name |-> info[id].name]

RECURSIVE MapFilter(_, _)
MapFilter(s, info) ==
  IF s = <<>> THEN <<>>
  ELSE IF Head(s) \in DOMAIN info
       THEN <<DeviceEntry(info, Head(s))>> \o MapFilter(Tail(s), info)
       ELSE MapFilter(Tail(s), info)

getConnectedDevices(S, roomId) ==
  IF roomId \notin DOMAIN S.rooms THEN <<>> ELSE MapFilter(S.rooms[roomId], S.deviceInfo)

\* v || 0
OrZero(v) == IF v = Undefined THEN 0 ELSE v

\* io.to(roomId): the sockets in the socket.io room
InRoom(S, roomId) == {c \in Conns : roomId \in S.sioRooms[c]}

broadcastRoomUpdate(S, roomId) ==
  Emission("room-updated", InRoom(S, roomId), roomId, 0,
           IF roomId \in DOMAIN S.roomStates
           THEN OrZero(S.roomStates[roomId].totalSlides)
           ELSE 0,
           NoSource, getConnectedDevices(S, roomId))

\* socket.join(roomId) / socket.leave(roomId)
socketJoin(S, c, roomId) == [S EXCEPT !.sioRooms[c] = @ \cup {roomId}]

socketLeave(S, c, roomId) == [S EXCEPT !.sioRooms[c] = @ \ {roomId}]

\* deviceInfo.set(socket.id, {..., joinedAt: Date.now()})
setDeviceInfo(S, c, info) ==
  [S EXCEPT !.deviceInfo = MapSet(@, c, info),
            !.joinOrder = Append(SetDelete(@, c), c)]

\* deviceInfo.delete(socket.id)
deleteDeviceInfo(S, c) ==
  [S EXCEPT !.deviceInfo = MapDelete(@, c), !.joinOrder = SetDelete(@, c)]

\* mutant of leavePrevious: the old room is updated before the id is deleted
leavePreviousBroadcastFirst(S, c, roomId) ==
  IF c \in DOMAIN S.deviceInfo /\ S.deviceInfo[c].roomId /= roomId
  THEN LET old == S.deviceInfo[c].roomId
           S1 == socketLeave(S, c, old)
       IN IF old \in DOMAIN S1.rooms
          THEN Result([S1 EXCEPT !.rooms[old] = SetDelete(@, c)],
                      <<broadcastRoomUpdate(S1, old)>>)
          ELSE Result(S1, <<>>)
  ELSE Result(S, <<>>)

\* join-room, "Leave any previous rooms first"
leavePrevious(S, c, roomId) ==
  IF c \in DOMAIN S.deviceInfo /\ S.deviceInfo[c].roomId /= roomId
  THEN LET old == S.deviceInfo[c].roomId
           S1 == socketLeave(S, c, old)
       IN IF old \in DOMAIN S1.rooms
          THEN LET S2 == [S1 EXCEPT !.rooms[old] = SetDelete(@, c)]
               IN Result(S2, <<broadcastRoomUpdate(S2, old)>>)
          ELSE Result(S1, <<>>)
  ELSE Result(S, <<>>)

NewRoomState == [slideIndex |-> 1, totalSlides |-> 0]

\* mutant of initRoom: a new room starts at a zero-based slide index
initRoomZeroBased(S, roomId) ==
  IF roomId \notin DOMAIN S.rooms
  THEN [S EXCEPT !.rooms = MapSet(@, roomId, <<>>),
                 !.roomStates = MapSet(@, roomId, [slideIndex |-> 0, totalSlides |-> 0])]
  ELSE S

\* join-room, "Initialize room if needed"
initRoom(S, roomId) ==
  IF roomId \notin DOMAIN S.rooms
  THEN [S EXCEPT !.rooms = MapSet(@, roomId, <<>>),
                 !.roomStates = MapSet(@, roomId, NewRoomState)]
  ELSE S

\* mutant of onJoinRoom: a device that joins again goes to the end of the set
onJoinRoomMovesToEnd(S, c, roomId, role, deviceName) ==
  LET left == leavePrevious(S, c, roomId)
      S1 == socketJoin(left.st, c, roomId)
      S2 == setDeviceInfo(S1, c,
              [role |-> role,
               name |-> IF deviceName = "" THEN "Unknown Device" ELSE deviceName,
               roomId |-> roomId])
      S3 == initRoom(S2, roomId)
      S4 == [S3 EXCEPT !.rooms[roomId] = Append(SetDelete(@, c), c)]
      state == S4.roomStates[roomId]
  IN Result(S4,
       left.out
       \o <<Emission("slide-sync", {c}, roomId, state.slideIndex, state.totalSlides,
                     NoSource, <<>>)>>
       \o <<broadcastRoomUpdate(S4, roomId)>>)

\* mutant of onJoinRoom: the joiner is not sent the current state
onJoinRoomNoSync(S, c, roomId, role, deviceName) ==
  LET left == leavePrevious(S, c, roomId)
      S1 == socketJoin(left.st, c, roomId)
      S2 == setDeviceInfo(S1, c,
              [role |-> role,
               name |-> IF deviceName = "" THEN "Unknown Device" ELSE deviceName,
               roomId |-> roomId])
      S3 == initRoom(S2, roomId)
      S4 == [S3 EXCEPT !.rooms[roomId] = SetAdd(@, c)]
  IN Result(S4, left.out \o <<broadcastRoomUpdate(S4, roomId)>>)

\* socket.on('join-room')
onJoinRoom(S, c, roomId, role, deviceName) ==
  LET left == leavePrevious(S, c, roomId)
      S1 == socketJoin(left.st, c, roomId)
      S2 == setDeviceInfo(S1, c,
              [role |-> role,
               name |-> IF deviceName = "" THEN "Unknown Device" ELSE deviceName,
               roomId |-> roomId])
      S3 == initRoom(S2, roomId)
      S4 == [S3 EXCEPT !.rooms[roomId] = SetAdd(@, c)]
      state == S4.roomStates[roomId]
  IN Result(S4,
       left.out
       \o <<Emission("slide-sync", {c}, roomId, state.slideIndex, state.totalSlides,
                     NoSource, <<>>)>>
       \o <<broadcastRoomUpdate(S4, roomId)>>)

\* mutant of onSlideChange: the sync is sent with socket.to, which skips the sender
onSlideChangeToOthers(S, c, roomId, slideIndex, totalSlides) ==
  IF roomId \notin DOMAIN S.roomStates
  THEN Result(S, <<>>)
  ELSE LET newTotal == IF totalSlides /= <<>> /\ totalSlides[1] > 0
                       THEN totalSlides[1]
                       ELSE S.roomStates[roomId].totalSlides
           S1 == [S EXCEPT !.roomStates[roomId] =
                    [slideIndex |-> slideIndex, totalSlides |-> newTotal]]
       IN Result(S1, <<Emission("slide-sync", InRoom(S1, roomId) \ {c}, roomId, slideIndex,
                                S1.roomStates[roomId].totalSlides, c, <<>>)>>)

\* mutant of onSlideChange: the server clamps the index to the known slide count
onSlideChangeClamped(S, c, roomId, slideIndex, totalSlides) ==
  IF roomId \notin DOMAIN S.roomStates
  THEN Result(S, <<>>)
  ELSE LET newTotal == IF totalSlides /= <<>> /\ totalSlides[1] > 0
                       THEN totalSlides[1]
                       ELSE S.roomStates[roomId].totalSlides
           upper == IF newTotal > 0 /\ slideIndex > newTotal THEN newTotal ELSE slideIndex
           clamped == IF upper < 1 THEN 1 ELSE upper
           S1 == [S EXCEPT !.roomStates[roomId] =
                    [slideIndex |-> clamped, totalSlides |-> newTotal]]
       IN Result(S1, <<Emission("slide-sync", InRoom(S1, roomId), roomId, clamped,
                                S1.roomStates[roomId].totalSlides, c, <<>>)>>)

\* mutant of onSlideChange: a totalSlides that is present is stored whatever its value
onSlideChangeAnyTotal(S, c, roomId, slideIndex, totalSlides) ==
  IF roomId \notin DOMAIN S.roomStates
  THEN Result(S, <<>>)
  ELSE LET newTotal == IF totalSlides /= <<>>
                       THEN totalSlides[1]
                       ELSE S.roomStates[roomId].totalSlides
           S1 == [S EXCEPT !.roomStates[roomId] =
                    [slideIndex |-> slideIndex, totalSlides |-> newTotal]]
       IN Result(S1, <<Emission("slide-sync", InRoom(S1, roomId), roomId, slideIndex,
                                S1.roomStates[roomId].totalSlides, c, <<>>)>>)

\* mutant of onSlideChange: the slide is stored as a zero-based index
onSlideChangeZeroBased(S, c, roomId, slideIndex, totalSlides) ==
  IF roomId \notin DOMAIN S.roomStates
  THEN Result(S, <<>>)
  ELSE LET newTotal == IF totalSlides /= <<>> /\ totalSlides[1] > 0
                       THEN totalSlides[1]
                       ELSE S.roomStates[roomId].totalSlides
           S1 == [S EXCEPT !.roomStates[roomId] =
                    [slideIndex |-> slideIndex - 1, totalSlides |-> newTotal]]
       IN Result(S1, <<Emission("slide-sync", InRoom(S1, roomId), roomId, slideIndex,
                                S1.roomStates[roomId].totalSlides, c, <<>>)>>)

\* socket.on('slide-change')
onSlideChange(S, c, roomId, slideIndex, totalSlides) ==
  IF roomId \notin DOMAIN S.roomStates
  THEN Result(S, <<>>)
  ELSE LET newTotal == IF totalSlides /= <<>> /\ totalSlides[1] > 0
                       THEN totalSlides[1]
                       ELSE S.roomStates[roomId].totalSlides
           S1 == [S EXCEPT !.roomStates[roomId] =
                    [slideIndex |-> slideIndex, totalSlides |-> newTotal]]
       IN Result(S1, <<Emission("slide-sync", InRoom(S1, roomId), roomId, slideIndex,
                                S1.roomStates[roomId].totalSlides, c, <<>>)>>)

\* mutant of onSetTotalSlides: a new slide count takes the deck back to slide 1
onSetTotalSlidesRewinds(S, c, roomId, totalSlides) ==
  IF roomId \notin DOMAIN S.roomStates
  THEN Result(S, <<>>)
  ELSE LET S1 == [S EXCEPT !.roomStates[roomId] =
                    [slideIndex |-> 1, totalSlides |-> totalSlides]]
       IN Result(S1, <<Emission("slide-sync", InRoom(S1, roomId), roomId,
                                S1.roomStates[roomId].slideIndex,
                                S1.roomStates[roomId].totalSlides, NoSource, <<>>)>>)

\* mutant of onSetTotalSlides: a room that has no state gets one
onSetTotalSlidesUpsert(S, c, roomId, totalSlides) ==
  LET S0 == IF roomId \notin DOMAIN S.roomStates
            THEN [S EXCEPT !.roomStates = MapSet(@, roomId, NewRoomState)]
            ELSE S
      S1 == [S0 EXCEPT !.roomStates[roomId].totalSlides = totalSlides]
  IN Result(S1, <<Emission("slide-sync", InRoom(S1, roomId), roomId,
                           S1.roomStates[roomId].slideIndex,
                           S1.roomStates[roomId].totalSlides, NoSource, <<>>)>>)

\* socket.on('set-total-slides')
onSetTotalSlides(S, c, roomId, totalSlides) ==
  IF roomId \notin DOMAIN S.roomStates
  THEN Result(S, <<>>)
  ELSE LET S1 == [S EXCEPT !.roomStates[roomId].totalSlides = totalSlides]
       IN Result(S1, <<Emission("slide-sync", InRoom(S1, roomId), roomId,
                                S1.roomStates[roomId].slideIndex,
                                S1.roomStates[roomId].totalSlides, NoSource, <<>>)>>)

\* mutant of onUpdateRole: the entry also takes the roomId of the payload
onUpdateRoleMovesDevice(S, c, roomId, role, deviceName) ==
  LET S1 == IF c \in DOMAIN S.deviceInfo
            THEN [S EXCEPT !.deviceInfo[c] =
                    [role |-> role,
                     name |-> IF deviceName = "" THEN @.name ELSE deviceName,
                     roomId |-> roomId]]
            ELSE S
  IN Result(S1, <<broadcastRoomUpdate(S1, roomId)>>)

\* socket.on('update-role')
onUpdateRole(S, c, roomId, role, deviceName) ==
  LET S1 == IF c \in DOMAIN S.deviceInfo
            THEN [S EXCEPT !.deviceInfo[c] =
                    [role |-> role,
                     name |-> IF deviceName = "" THEN @.name ELSE deviceName,
                     roomId |-> @.roomId]]
            ELSE S
  IN Result(S1, <<broadcastRoomUpdate(S1, roomId)>>)

\* mutant of dropFromRoom: the state record of an emptied room is kept
dropFromRoomKeepsState(S, c, roomId) ==
  IF roomId \in DOMAIN S.rooms
  THEN LET ds == SetDelete(S.rooms[roomId], c)
       IN IF Len(ds) = 0
          THEN Result([S EXCEPT !.rooms = MapDelete(@, roomId)], <<>>)
          ELSE LET S1 == [S EXCEPT !.rooms[roomId] = ds]
               IN Result(S1, <<broadcastRoomUpdate(S1, roomId)>>)
  ELSE Result(S, <<>>)

\* disconnect and leave-room: delete the id from the room's set, then delete
\* the room when the set is empty, else broadcast the room update
dropFromRoom(S, c, roomId) ==
  IF roomId \in DOMAIN S.rooms
  THEN LET ds == SetDelete(S.rooms[roomId], c)
       IN IF Len(ds) = 0
          THEN Result([S EXCEPT !.rooms = MapDelete(@, roomId),
                                !.roomStates = MapDelete(@, roomId)], <<>>)
          ELSE LET S1 == [S EXCEPT !.rooms[roomId] = ds]
               IN Result(S1, <<broadcastRoomUpdate(S1, roomId)>>)
  ELSE Result(S, <<>>)

\* mutant of onDisconnect: the room is kept, and updated, also when its last
\* device has gone
onDisconnectKeepsRoom(S, c) ==
  LET S0 == [S EXCEPT !.sioRooms[c] = {}]
      dropped == IF c \in DOMAIN S0.deviceInfo /\ S0.deviceInfo[c].roomId \in DOMAIN S0.rooms
                 THEN LET r == S0.deviceInfo[c].roomId
                          S1 == [S0 EXCEPT !.rooms[r] = SetDelete(@, c)]
                      IN Result(S1, <<broadcastRoomUpdate(S1, r)>>)
                 ELSE Result(S0, <<>>)
  IN Result(deleteDeviceInfo(dropped.st, c), dropped.out)

\* mutant of onDisconnect: the room the device was in goes back to its
\* initial state when devices remain
onDisconnectResetsRoom(S, c) ==
  LET S0 == [S EXCEPT !.sioRooms[c] = {}]
      dropped == IF c \in DOMAIN S0.deviceInfo
                 THEN dropFromRoom(S0, c, S0.deviceInfo[c].roomId)
                 ELSE Result(S0, <<>>)
      S1 == deleteDeviceInfo(dropped.st, c)
  IN Result([S1 EXCEPT !.roomStates = [r \in DOMAIN @ |-> NewRoomState]], dropped.out)

\* socket.on('disconnect'); socket.io has taken the socket out of every
\* socket.io room before the handler runs
onDisconnect(S, c) ==
  LET S0 == [S EXCEPT !.sioRooms[c] = {}]
      dropped == IF c \in DOMAIN S0.deviceInfo
                 THEN dropFromRoom(S0, c, S0.deviceInfo[c].roomId)
                 ELSE Result(S0, <<>>)
  IN Result(deleteDeviceInfo(dropped.st, c), dropped.out)

\* socket.on('leave-room')
onLeaveRoom(S, c, roomId) ==
  LET dropped == dropFromRoom(socketLeave(S, c, roomId), c, roomId)
  IN Result(deleteDeviceInfo(dropped.st, c), dropped.out)

\* ---- the server as a state machine ----
Init ==
  /\ conn = [c \in Conns |-> "new"]
  /\ rooms = EmptyMap
  /\ deviceInfo = EmptyMap
  /\ joinOrder = <<>>
  /\ roomStates = EmptyMap
  /\ sioRooms = [c \in Conns |-> {}]
  /\ emitted = <<>>
  /\ lastEvent = NoEvent
  /\ prevEvent = NoEvent
  /\ sock = [k \in Clients |-> NoSource]
  /\ cRoomId = [k \in Clients |-> NoRoom]
  /\ currentSlide = [k \in Clients |-> 1]
  /\ cTotalSlides = [k \in Clients |-> 0]
  /\ isConnected = [k \in Clients |-> FALSE]
  /\ timerArmed = [k \in Clients |-> FALSE]
  /\ sendBuffer = [k \in Clients |-> <<>>]
  /\ c2s = [c \in Conns |-> <<>>]
  /\ s2c = [c \in Conns |-> <<>>]

\* the handler's result becomes the server's state
Handled(res, ev) ==
  /\ rooms' = res.st.rooms
  /\ deviceInfo' = res.st.deviceInfo
  /\ joinOrder' = res.st.joinOrder
  /\ roomStates' = res.st.roomStates
  /\ sioRooms' = res.st.sioRooms
  /\ emitted' = res.out
  /\ lastEvent' = ev

\* io.on('connection')
Connection(CS) ==
  \E c \in CS :
    /\ conn[c] = "new"
    /\ conn' = [conn EXCEPT ![c] = "open"]
    /\ Handled(Result(Srv, <<>>), Event("connection", c, NoRoom, 0, <<>>))

JoinRoom(CS, RS) ==
  \E c \in CS, r \in RS :
    /\ conn[c] = "open"
    /\ Handled(onJoinRoom(Srv, c, r, RoleOf(c), NameOf(c)),
               Event("join-room", c, r, 0, <<>>))
    /\ UNCHANGED conn

SlideChange(CS, RS, TS) ==
  \E c \in CS, r \in RS, s \in SlideVals, t \in TS :
    /\ conn[c] = "open"
    /\ Handled(onSlideChange(Srv, c, r, s, t), Event("slide-change", c, r, s, t))
    /\ UNCHANGED conn

SetTotalSlides(CS, RS) ==
  \E c \in CS, r \in RS, t \in TotalVals :
    /\ conn[c] = "open"
    /\ Handled(onSetTotalSlides(Srv, c, r, t), Event("set-total-slides", c, r, 0, <<t>>))
    /\ UNCHANGED conn

UpdateRole(CS, RS) ==
  \E c \in CS, r \in RS :
    /\ conn[c] = "open"
    /\ Handled(onUpdateRole(Srv, c, r, RoleOf(c), NameOf(c)),
               Event("update-role", c, r, 0, <<>>))
    /\ UNCHANGED conn

LeaveRoom(CS, RS) ==
  \E c \in CS, r \in RS :
    /\ conn[c] = "open"
    /\ Handled(onLeaveRoom(Srv, c, r), Event("leave-room", c, r, 0, <<>>))
    /\ UNCHANGED conn

Disconnect(CS) ==
  \E c \in CS :
    /\ conn[c] = "open"
    /\ Handled(onDisconnect(Srv, c), Event("disconnect", c, NoRoom, 0, <<>>))
    /\ conn' = [conn EXCEPT ![c] = "closed"]

\* the server driven by arbitrary events of its open sockets
Next ==
  \/ Connection(Conns) /\ UNCHANGED <<prevEvent, clientVars>>
  \/ JoinRoom(Conns, Rooms) /\ UNCHANGED <<prevEvent, clientVars>>
  \/ SlideChange(Conns, Rooms, OptTotals) /\ UNCHANGED <<prevEvent, clientVars>>
  \/ SetTotalSlides(Conns, Rooms) /\ UNCHANGED <<prevEvent, clientVars>>
  \/ UpdateRole(Conns, Rooms) /\ UNCHANGED <<prevEvent, clientVars>>
  \/ LeaveRoom(Conns, Rooms) /\ UNCHANGED <<prevEvent, clientVars>>
  \/ Disconnect(Conns) /\ UNCHANGED <<prevEvent, clientVars>>

Spec == Init /\ [][Next]_vars

\* ---- the server of one room, remembering the event before the last ----
LwwRooms == {"A"}

NextLWW ==
  \/ Connection(Conns) /\ prevEvent' = lastEvent /\ UNCHANGED clientVars
  \/ JoinRoom(Conns, LwwRooms) /\ prevEvent' = lastEvent /\ UNCHANGED clientVars
  \/ SlideChange(Conns, LwwRooms, OptTotals) /\ prevEvent' = lastEvent /\ UNCHANGED clientVars
  \/ SetTotalSlides(Conns, LwwRooms) /\ prevEvent' = lastEvent /\ UNCHANGED clientVars
  \/ UpdateRole(Conns, LwwRooms) /\ prevEvent' = lastEvent /\ UNCHANGED clientVars
  \/ LeaveRoom(Conns, LwwRooms) /\ prevEvent' = lastEvent /\ UNCHANGED clientVars
  \/ Disconnect(Conns) /\ prevEvent' = lastEvent /\ UNCHANGED clientVars

SpecLWW == Init /\ [][NextLWW]_vars

\* ---- the server of one room, fed every integer a payload may carry ----
\* slide numbers below 1 and beyond the deck; slide counts below 0
WideSlides == (0 - 1)..(MaxSlide + 1)
WideTotals == (0 - 1)..MaxSlide
WideOptTotals == {<<>>} \cup {<<t>> : t \in WideTotals}

SlideChangeWide(CS, RS) ==
  \E c \in CS, r \in RS, s \in WideSlides, t \in WideOptTotals :
    /\ conn[c] = "open"
    /\ Handled(onSlideChange(Srv, c, r, s, t), Event("slide-change", c, r, s, t))
    /\ UNCHANGED conn

SetTotalSlidesWide(CS, RS) ==
  \E c \in CS, r \in RS, t \in WideTotals :
    /\ conn[c] = "open"
    /\ Handled(onSetTotalSlides(Srv, c, r, t), Event("set-total-slides", c, r, 0, <<t>>))
    /\ UNCHANGED conn

NextWide ==
  \/ Connection(Conns) /\ UNCHANGED <<prevEvent, clientVars>>
  \/ JoinRoom(Conns, LwwRooms) /\ UNCHANGED <<prevEvent, clientVars>>
  \/ SlideChangeWide(Conns, LwwRooms) /\ UNCHANGED <<prevEvent, clientVars>>
  \/ SetTotalSlidesWide(Conns, LwwRooms) /\ UNCHANGED <<prevEvent, clientVars>>
  \/ LeaveRoom(Conns, LwwRooms) /\ UNCHANGED <<prevEvent, clientVars>>
  \/ Disconnect(Conns) /\ UNCHANGED <<prevEvent, clientVars>>

SpecWide == Init /\ [][NextWide]_vars

\* ---- the server with devices that change role and name ----
Roles == {"stage", "remote", "teleprompter"}
\* the deviceName of an update-role payload; "" is an absent name
RoleNames == {"", "M"}

UpdateRoleTo(CS, RS) ==
  \E c \in CS, r \in RS, role \in Roles, name \in RoleNames :
    /\ conn[c] = "open"
    /\ Handled(onUpdateRole(Srv, c, r, role, name), Event("update-role", c, r, 0, <<>>))
    /\ UNCHANGED conn

NextRole ==
  \/ Connection(Conns) /\ UNCHANGED <<prevEvent, clientVars>>
  \/ JoinRoom(Conns, Rooms) /\ UNCHANGED <<prevEvent, clientVars>>
  \/ UpdateRoleTo(Conns, Rooms) /\ UNCHANGED <<prevEvent, clientVars>>
  \/ LeaveRoom(Conns, Rooms) /\ UNCHANGED <<prevEvent, clientVars>>
  \/ Disconnect(Conns) /\ UNCHANGED <<prevEvent, clientVars>>

SpecRole == Init /\ [][NextRole]_vars

\* ---- the relay of annotations ----
\* slideId and stroke are opaque to the server: a slide id and a stroke are
\* numbers here, and in an Event and an Emission the slide id travels in the
\* slideIndex field and the stroke in the totalSlides field
SlideIds == {1, MaxSlide}
Strokes == {0, 1}

\* mutant of onAnnotationData: the stroke is sent with io.to, sender included
onAnnotationDataToAll(S, c, roomId, slideId, stroke) ==
  Result(S, <<Emission("annotation-received", InRoom(S, roomId), roomId, slideId,
                       stroke, c, <<>>)>>)

\* socket.on('annotation-data'): socket.to(roomId) skips the sender
onAnnotationData(S, c, roomId, slideId, stroke) ==
  Result(S, <<Emission("annotation-received", InRoom(S, roomId) \ {c}, roomId, slideId,
                       stroke, c, <<>>)>>)

\* socket.on('clear-annotations')
onClearAnnotations(S, c, roomId, slideId) ==
  Result(S, <<Emission("annotations-cleared", InRoom(S, roomId), roomId, slideId,
                       0, NoSource, <<>>)>>)

AnnotationData(CS, RS) ==
  \E c \in CS, r \in RS, slideId \in SlideIds, stroke \in Strokes :
    /\ conn[c] = "open"
    /\ Handled(onAnnotationData(Srv, c, r, slideId, stroke),
               Event("annotation-data", c, r, slideId, <<stroke>>))
    /\ UNCHANGED conn

ClearAnnotations(CS, RS) ==
  \E c \in CS, r \in RS, slideId \in SlideIds :
    /\ conn[c] = "open"
    /\ Handled(onClearAnnotations(Srv, c, r, slideId),
               Event("clear-annotations", c, r, slideId, <<>>))
    /\ UNCHANGED conn

NextAnnotation ==
  \/ Connection(Conns) /\ UNCHANGED <<prevEvent, clientVars>>
  \/ JoinRoom(Conns, Rooms) /\ UNCHANGED <<prevEvent, clientVars>>
  \/ AnnotationData(Conns, Rooms) /\ UNCHANGED <<prevEvent, clientVars>>
  \/ ClearAnnotations(Conns, Rooms) /\ UNCHANGED <<prevEvent, clientVars>>
  \/ LeaveRoom(Conns, Rooms) /\ UNCHANGED <<prevEvent, clientVars>>
  \/ Disconnect(Conns) /\ UNCHANGED <<prevEvent, clientVars>>

SpecAnnotation == Init /\ [][NextAnnotation]_vars

\* ---- the server of one room, fed payloads that lack a field ----
\* a destructured field that the payload lacks is undefined
MalformedRooms == {"A", UndefinedRoom}
MalformedSlides == (SlideVals \ {0}) \cup {Undefined}

SlideChangeMalformed(CS, RS) ==
  \E c \in CS, r \in RS, s \in MalformedSlides, t \in OptTotals :
    /\ conn[c] = "open"
    /\ Handled(onSlideChange(Srv, c, r, s, t), Event("slide-change", c, r, s, t))
    /\ UNCHANGED conn

SetTotalSlidesMalformed(CS, RS) ==
  \E c \in CS, r \in RS, t \in OptTotals :
    /\ conn[c] = "open"
    /\ Handled(onSetTotalSlides(Srv, c, r, IF t = <<>> THEN Undefined ELSE t[1]),
               Event("set-total-slides", c, r, 0, t))
    /\ UNCHANGED conn

NextMalformed ==
  \/ Connection(Conns) /\ UNCHANGED <<prevEvent, clientVars>>
  \/ JoinRoom(Conns, MalformedRooms) /\ UNCHANGED <<prevEvent, clientVars>>
  \/ SlideChangeMalformed(Conns, LwwRooms) /\ UNCHANGED <<prevEvent, clientVars>>
  \/ SetTotalSlidesMalformed(Conns, LwwRooms) /\ UNCHANGED <<prevEvent, clientVars>>
  \/ LeaveRoom(Conns, LwwRooms) /\ UNCHANGED <<prevEvent, clientVars>>
  \/ Disconnect(Conns) /\ UNCHANGED <<prevEvent, clientVars>>

SpecMalformed == Init /\ [][NextMalformed]_vars

\* ---- the relay of the presentation controls ----
\* The events useSocket emits for the presentation controls (toggleFullscreen,
\* togglePlay, toggleGrid, togglePrivacy, updateTimer, timerTick) and the event
\* the server answers each with.  The value sent (a boolean, a remaining time)
\* is 0 or 1; in an Event and in an Emission it travels in the slideIndex field.
ControlTypes ==
  {"toggle-fullscreen", "toggle-play", "toggle-grid", "toggle-privacy",
   "timer-update", "timer-tick"}
ControlVals == {0, 1}

SyncOf(type) ==
  CASE type = "toggle-fullscreen" -> "fullscreen-sync"
    [] type = "toggle-play" -> "play-sync"
    [] type = "toggle-grid" -> "grid-sync"
    [] type = "toggle-privacy" -> "privacy-sync"
    [] type = "timer-update" -> "timer-sync"
    [] type = "timer-tick" -> "timer-sync"

\* mutant of onControl: the sync is sent with io.to, which includes the sender
onControlToAll(S, c, type, roomId, value) ==
  IF roomId \notin DOMAIN S.roomStates
  THEN Result(S, <<>>)
  ELSE Result(S, <<Emission(SyncOf(type), InRoom(S, roomId), roomId, value, 0,
                            NoSource, <<>>)>>)

\* the handler of a control event: for an Active room the corresponding
\* sync goes to the room except the sender (socket.to(roomId).emit)
onControl(S, c, type, roomId, value) ==
  IF roomId \notin DOMAIN S.roomStates
  THEN Result(S, <<>>)
  ELSE Result(S, <<Emission(SyncOf(type), InRoom(S, roomId) \ {c}, roomId, value, 0,
                            NoSource, <<>>)>>)

Control(CS, RS) ==
  \E c \in CS, r \in RS, type \in ControlTypes, v \in ControlVals :
    /\ conn[c] = "open"
    /\ Handled(onControl(Srv, c, type, r, v), Event(type, c, r, v, <<>>))
    /\ UNCHANGED conn

NextControl ==
  \/ Connection(Conns) /\ UNCHANGED <<prevEvent, clientVars>>
  \/ JoinRoom(Conns, Rooms) /\ UNCHANGED <<prevEvent, clientVars>>
  \/ Control(Conns, Rooms) /\ UNCHANGED <<prevEvent, clientVars>>
  \/ LeaveRoom(Conns, Rooms) /\ UNCHANGED <<prevEvent, clientVars>>
  \/ Disconnect(Conns) /\ UNCHANGED <<prevEvent, clientVars>>

SpecControl == Init /\ [][NextControl]_vars

\* ---- the clients: RoomProvider (RoomContext.tsx) over useSocket ----
ClientRooms == {"A"}
ClientRole(k) == IF k = "k1" THEN "stage" ELSE "remote"
\* getDeviceName()
ClientName(k) == IF k = "k1" THEN "N" ELSE "Unknown Device"

\* a packet from a client to the server
Packet(type, roomId, slideIndex, totalSlides, role, deviceName) ==
  [type |-> type, roomId |-> roomId, slideIndex |-> slideIndex,
   totalSlides |-> totalSlides, role |-> role, name |-> deviceName]

JoinPacket(k, r) == Packet("join-room", r, 0, <<>>, ClientRole(k), ClientName(k))

\* what the client reads of a packet from the server
Down(e) == [type |-> e.type, slideIndex |-> e.slideIndex, totalSlides |-> e.totalSlides]

\* the page of the client was closed
Unmounted == "gone"

\* the socket of client k is connected
Connected(k) == sock[k] \in Conns

\* socket.emit on a socket that must be connected (joinRoom, changeSlide of
\* useSocket): the packet is sent, or nothing happens
EmitIfConnected(k, p) ==
  IF Connected(k)
  THEN /\ Len(c2s[sock[k]]) < MaxPending
       /\ c2s' = [c2s EXCEPT ![sock[k]] = Append(@, p)]
  ELSE c2s' = c2s

\* the auto-rejoin effect of RoomProvider, run again when one of isConnected,
\* roomId, role changes: the pending timeout is cleared and a new one is set
\* when the client is connected and holds a room
RejoinEffect(connected, roomId) == connected /\ roomId /= NoRoom

\* mutant of Clamp: Math.min(slideIndex, totalSlides || slideIndex)
ClampAboveOnly(slideIndex, totalSlides) ==
  LET upper == IF totalSlides = 0 THEN slideIndex ELSE totalSlides
  IN IF slideIndex < upper THEN slideIndex ELSE upper

\* Math.max(1, Math.min(slideIndex, totalSlides || slideIndex))
Clamp(slideIndex, totalSlides) ==
  LET upper == IF totalSlides = 0 THEN slideIndex ELSE totalSlides
      low == IF slideIndex < upper THEN slideIndex ELSE upper
  IN IF low < 1 THEN 1 ELSE low

\* the socket a client opens; a client of this specification opens one socket
SocketOf(k) == IF k = "k1" THEN "c1" ELSE "c2"

\* the page of client k is open
Mounted(k) == sock[k] /= Unmounted

\* onSlideSync of RoomProvider: the state of the client after a slide-sync
onSlideSyncKeepsLocal(prev, data) ==
  [currentSlide |-> prev.currentSlide,
   totalSlides |-> IF data.totalSlides > 0 THEN data.totalSlides ELSE prev.totalSlides]
onSlideSync(prev, data) ==
  [currentSlide |-> data.slideIndex,
   totalSlides |-> IF data.totalSlides > 0 THEN data.totalSlides ELSE prev.totalSlides]

\* onRoomUpdated of RoomProvider
onRoomUpdated(prev, data) ==
  [currentSlide |-> prev.currentSlide,
   totalSlides |-> IF data.totalSlides > 0 THEN data.totalSlides ELSE prev.totalSlides]

\* the handler the server runs for a packet
Dispatch(S, c, p) ==
  CASE p.type = "join-room" -> onJoinRoom(S, c, p.roomId, p.role, p.name)
    [] p.type = "leave-room" -> onLeaveRoom(S, c, p.roomId)
    [] p.type = "slide-change" -> onSlideChange(S, c, p.roomId, p.slideIndex, p.totalSlides)

\* the emissions put on the connections of their recipients, in order
RECURSIVE Route(_, _, _)
Route(q, out, live) ==
  IF out = <<>> THEN q
  ELSE Route([c \in Conns |->
                IF c \in Head(out).to /\ c \in live THEN Append(q[c], Down(Head(out))) ELSE q[c]],
             Tail(out), live)

\* mutant of Handshake: connecting sets no auto-rejoin timeout
HandshakeNoRejoin(k, c) ==
  /\ Mounted(k)
  /\ ~Connected(k)
  /\ conn[c] = "new"
  /\ conn' = [conn EXCEPT ![c] = "open"]
  /\ sock' = [sock EXCEPT ![k] = c]
  /\ isConnected' = [isConnected EXCEPT ![k] = TRUE]
  /\ timerArmed' = [timerArmed EXCEPT ![k] = FALSE]
  /\ c2s' = [c2s EXCEPT ![c] = sendBuffer[k]]
  /\ sendBuffer' = [sendBuffer EXCEPT ![k] = <<>>]
  /\ UNCHANGED <<rooms, deviceInfo, joinOrder, roomStates, sioRooms, emitted,
                 lastEvent, prevEvent, cRoomId, currentSlide, cTotalSlides, s2c>>

\* the socket of client k connects with id c: io.on('connection') on the
\* server, 'connect' on the client, which sends the packets buffered while it
\* was not connected
Handshake(k, c) ==
  /\ Mounted(k)
  /\ ~Connected(k)
  /\ conn[c] = "new"
  /\ conn' = [conn EXCEPT ![c] = "open"]
  /\ sock' = [sock EXCEPT ![k] = c]
  /\ isConnected' = [isConnected EXCEPT ![k] = TRUE]
  /\ timerArmed' = [timerArmed EXCEPT ![k] = RejoinEffect(TRUE, cRoomId[k])]
  /\ c2s' = [c2s EXCEPT ![c] = sendBuffer[k]]
  /\ sendBuffer' = [sendBuffer EXCEPT ![k] = <<>>]
  /\ UNCHANGED <<rooms, deviceInfo, joinOrder, roomStates, sioRooms, emitted,
                 lastEvent, prevEvent, cRoomId, currentSlide, cTotalSlides, s2c>>

\* a client whose transport holds: it connects once
ClientConnect(KS) ==
  \E k \in KS : Handshake(k, SocketOf(k))

\* a client whose transport may be lost: socket.io-client connects again
\* (reconnection: true), and the server gives the new socket a new id
ClientReconnect(KS) ==
  \E k \in KS, c \in Conns : Handshake(k, c)

\* the transport is lost: 'disconnect' on the client, which keeps its room
\* state; the auto-rejoin effect runs again and clears the pending timeout;
\* what the server had sent and was not delivered is lost
TransportLost(KS) ==
  \E k \in KS :
    /\ Connected(k)
    /\ conn' = [conn EXCEPT ![sock[k]] = "closing"]
    /\ s2c' = [s2c EXCEPT ![sock[k]] = <<>>]
    /\ sock' = [sock EXCEPT ![k] = NoSource]
    /\ isConnected' = [isConnected EXCEPT ![k] = FALSE]
    /\ timerArmed' = [timerArmed EXCEPT ![k] = RejoinEffect(FALSE, cRoomId[k])]
    /\ UNCHANGED <<rooms, deviceInfo, joinOrder, roomStates, sioRooms, emitted,
                   lastEvent, prevEvent, cRoomId, currentSlide, cTotalSlides,
                   sendBuffer, c2s>>

\* the page of the client is closed: the effect cleanup of useSocket calls
\* socket.disconnect(), and the state of the provider is gone; what the
\* server had sent and was not delivered is lost
ClientUnmount(KS) ==
  \E k \in KS :
    /\ Mounted(k)
    /\ conn' = IF Connected(k) THEN [conn EXCEPT ![sock[k]] = "closing"] ELSE conn
    /\ s2c' = IF Connected(k) THEN [s2c EXCEPT ![sock[k]] = <<>>] ELSE s2c
    /\ sock' = [sock EXCEPT ![k] = Unmounted]
    /\ isConnected' = [isConnected EXCEPT ![k] = FALSE]
    /\ timerArmed' = [timerArmed EXCEPT ![k] = FALSE]
    /\ cRoomId' = [cRoomId EXCEPT ![k] = NoRoom]
    /\ currentSlide' = [currentSlide EXCEPT ![k] = 1]
    /\ cTotalSlides' = [cTotalSlides EXCEPT ![k] = 0]
    /\ sendBuffer' = [sendBuffer EXCEPT ![k] = <<>>]
    /\ UNCHANGED <<rooms, deviceInfo, joinOrder, roomStates, sioRooms, emitted,
                   lastEvent, prevEvent, c2s>>

\* RoomProvider.joinRoom (createRoom with a new code does the same)
ClientJoinRoom(KS) ==
  \E k \in KS, r \in ClientRooms :
    /\ Mounted(k)
    /\ cRoomId' = [cRoomId EXCEPT ![k] = r]
    /\ currentSlide' = [currentSlide EXCEPT ![k] = 1]
    /\ EmitIfConnected(k, JoinPacket(k, r))
    /\ timerArmed' = [timerArmed EXCEPT ![k] =
                        IF cRoomId[k] /= r THEN RejoinEffect(isConnected[k], r) ELSE @]
    /\ UNCHANGED <<serverVars, prevEvent, sock, cTotalSlides, isConnected, sendBuffer, s2c>>

\* mutant of ClientLeaveRoom: the pending auto-rejoin timeout is left alone
ClientLeaveRoomKeepsTimer(KS) ==
  \E k \in KS :
    /\ Mounted(k)
    /\ cRoomId[k] /= NoRoom
    /\ LET p == Packet("leave-room", cRoomId[k], 0, <<>>, "", "")
       IN IF Connected(k)
          THEN /\ Len(c2s[sock[k]]) < MaxPending
               /\ c2s' = [c2s EXCEPT ![sock[k]] = Append(@, p)]
               /\ UNCHANGED sendBuffer
          ELSE /\ Len(sendBuffer[k]) < MaxPending
               /\ sendBuffer' = [sendBuffer EXCEPT ![k] = Append(@, p)]
               /\ UNCHANGED c2s
    /\ cRoomId' = [cRoomId EXCEPT ![k] = NoRoom]
    /\ currentSlide' = [currentSlide EXCEPT ![k] = 1]
    /\ cTotalSlides' = [cTotalSlides EXCEPT ![k] = 0]
    /\ UNCHANGED <<serverVars, prevEvent, sock, isConnected, s2c, timerArmed>>

\* RoomProvider.leaveRoom; useSocket.leaveRoom emits also on a socket that is
\* not connected, which buffers the packet
ClientLeaveRoom(KS) ==
  \E k \in KS :
    /\ Mounted(k)
    /\ cRoomId[k] /= NoRoom
    /\ LET p == Packet("leave-room", cRoomId[k], 0, <<>>, "", "")
       IN IF Connected(k)
          THEN /\ Len(c2s[sock[k]]) < MaxPending
               /\ c2s' = [c2s EXCEPT ![sock[k]] = Append(@, p)]
               /\ UNCHANGED sendBuffer
          ELSE /\ Len(sendBuffer[k]) < MaxPending
               /\ sendBuffer' = [sendBuffer EXCEPT ![k] = Append(@, p)]
               /\ UNCHANGED c2s
    /\ cRoomId' = [cRoomId EXCEPT ![k] = NoRoom]
    /\ currentSlide' = [currentSlide EXCEPT ![k] = 1]
    /\ cTotalSlides' = [cTotalSlides EXCEPT ![k] = 0]
    /\ timerArmed' = [timerArmed EXCEPT ![k] = FALSE]
    /\ UNCHANGED <<serverVars, prevEvent, sock, isConnected, s2c>>

\* RoomProvider.goToSlide
ClientGoToSlide(KS) ==
  \E k \in KS, v \in SlideVals :
    /\ Mounted(k)
    /\ cRoomId[k] /= NoRoom
    /\ LET clampedIndex == Clamp(v, cTotalSlides[k])
       IN /\ currentSlide' = [currentSlide EXCEPT ![k] = clampedIndex]
          /\ EmitIfConnected(k, Packet("slide-change", cRoomId[k], clampedIndex,
                                       <<cTotalSlides[k]>>, "", ""))
    /\ UNCHANGED <<serverVars, prevEvent, sock, cRoomId, cTotalSlides, isConnected,
                   timerArmed, sendBuffer, s2c>>

\* RoomProvider.setTotalSlides, called by the stage and remote pages when
\* they hold slides and a room: slides.length > 0 && roomId
ClientSetTotalSlides(KS) ==
  \E k \in KS, total \in TotalVals \ {0} :
    /\ Mounted(k)
    /\ cRoomId[k] /= NoRoom
    /\ cTotalSlides' = [cTotalSlides EXCEPT ![k] = total]
    /\ IF cRoomId[k] /= NoRoom /\ total > 0
       THEN EmitIfConnected(k, Packet("slide-change", cRoomId[k], currentSlide[k],
                                      <<total>>, "", ""))
       ELSE c2s' = c2s
    /\ UNCHANGED <<serverVars, prevEvent, sock, cRoomId, currentSlide, isConnected,
                   timerArmed, sendBuffer, s2c>>

\* the auto-rejoin timeout of RoomProvider fires
ClientRejoin(KS) ==
  \E k \in KS :
    /\ timerArmed[k]
    /\ EmitIfConnected(k, JoinPacket(k, cRoomId[k]))
    /\ timerArmed' = [timerArmed EXCEPT ![k] = FALSE]
    /\ UNCHANGED <<serverVars, prevEvent, sock, cRoomId, currentSlide, cTotalSlides,
                   isConnected, sendBuffer, s2c>>

\* the client receives a packet: onSlideSync / onRoomUpdated
ClientReceive(KS) ==
  \E k \in KS :
    /\ Connected(k)
    /\ s2c[sock[k]] /= <<>>
    /\ LET data == Head(s2c[sock[k]])
           prev == [currentSlide |-> currentSlide[k], totalSlides |-> cTotalSlides[k]]
           state == IF data.type = "slide-sync" THEN onSlideSync(prev, data)
                    ELSE onRoomUpdated(prev, data)
       IN /\ currentSlide' = [currentSlide EXCEPT ![k] = state.currentSlide]
          /\ cTotalSlides' = [cTotalSlides EXCEPT ![k] = state.totalSlides]
    /\ s2c' = [s2c EXCEPT ![sock[k]] = Tail(@)]
    /\ UNCHANGED <<serverVars, prevEvent, sock, cRoomId, isConnected, timerArmed,
                   sendBuffer, c2s>>

\* the server handles the next packet of a connection
ServerReceive ==
  \E c \in Conns :
    /\ conn[c] \in {"open", "closing"}
    /\ c2s[c] /= <<>>
    /\ LET res == Dispatch(Srv, c, Head(c2s[c]))
           q == Route(s2c, res.out, {d \in Conns : conn[d] = "open"})
       IN /\ \A d \in Conns : Len(q[d]) <= MaxQueue
          /\ rooms' = res.st.rooms
          /\ deviceInfo' = res.st.deviceInfo
          /\ joinOrder' = res.st.joinOrder
          /\ roomStates' = res.st.roomStates
          /\ sioRooms' = res.st.sioRooms
          /\ s2c' = q
    /\ c2s' = [c2s EXCEPT ![c] = Tail(@)]
    /\ UNCHANGED <<conn, emitted, lastEvent, prevEvent, sock, cRoomId, currentSlide,
                   cTotalSlides, isConnected, timerArmed, sendBuffer>>

\* the server notices the lost transport: socket.on('disconnect'); packets of
\* the connection it had not handled are lost
ServerDisconnect ==
  \E c \in Conns :
    /\ conn[c] = "closing"
    /\ LET res == onDisconnect(Srv, c)
           q == Route(s2c, res.out, {d \in Conns : conn[d] = "open"})
       IN /\ \A d \in Conns : Len(q[d]) <= MaxQueue
          /\ rooms' = res.st.rooms
          /\ deviceInfo' = res.st.deviceInfo
          /\ joinOrder' = res.st.joinOrder
          /\ roomStates' = res.st.roomStates
          /\ sioRooms' = res.st.sioRooms
          /\ s2c' = q
    /\ conn' = [conn EXCEPT ![c] = "closed"]
    /\ c2s' = [c2s EXCEPT ![c] = <<>>]
    /\ UNCHANGED <<emitted, lastEvent, prevEvent, sock, cRoomId, currentSlide,
                   cTotalSlides, isConnected, timerArmed, sendBuffer>>

NextClient ==
  \/ ClientConnect(Clients)
  \/ ClientUnmount(Clients)
  \/ ClientJoinRoom(Clients)
  \/ ClientLeaveRoom(Clients)
  \/ ClientGoToSlide(Clients)
  \/ ClientSetTotalSlides(Clients)
  \/ ClientRejoin(Clients)
  \/ ClientReceive(Clients)
  \/ ServerReceive
  \/ ServerDisconnect

SpecClient == Init /\ [][NextClient]_vars

\* ---- a client that navigates: goToSlide, nextSlide, prevSlide ----
NavClients == {"k1"}

\* the slide-change that goToSlide(v) of client k sends
GoToSlidePacket(k, v) ==
  Packet("slide-change", cRoomId[k], Clamp(v, cTotalSlides[k]), <<cTotalSlides[k]>>, "", "")

\* RoomProvider.goToSlide(v) of client k
GoToSlide(k, v) ==
  /\ Mounted(k)
  /\ cRoomId[k] /= NoRoom
  /\ currentSlide' = [currentSlide EXCEPT ![k] = GoToSlidePacket(k, v).slideIndex]
  /\ EmitIfConnected(k, GoToSlidePacket(k, v))
  /\ UNCHANGED <<serverVars, prevEvent, sock, cRoomId, cTotalSlides, isConnected,
                 timerArmed, sendBuffer, s2c>>

\* the arguments of the goToSlide calls of nextSlide:
\* currentSlide < (totalSlides || Infinity)
nextSlide(current, total) ==
  IF total = 0 \/ current < total THEN <<current + 1>> ELSE <<>>

\* the arguments of the goToSlide calls of prevSlide
prevSlide(current) == IF current > 1 THEN <<current - 1>> ELSE <<>>

ClientGoToSlideWide(KS) == \E k \in KS, v \in WideSlides : GoToSlide(k, v)

ClientNextSlide(KS) ==
  \E k \in KS :
    LET calls == nextSlide(currentSlide[k], cTotalSlides[k])
    IN calls /= <<>> /\ calls[1] \in WideSlides /\ GoToSlide(k, calls[1])

ClientPrevSlide(KS) ==
  \E k \in KS :
    LET calls == prevSlide(currentSlide[k])
    IN calls /= <<>> /\ GoToSlide(k, calls[1])

NextNav ==
  \/ ClientConnect(NavClients)
  \/ ClientJoinRoom(NavClients)
  \/ ClientGoToSlideWide(NavClients)
  \/ ClientNextSlide(NavClients)
  \/ ClientPrevSlide(NavClients)
  \/ ClientSetTotalSlides(NavClients)
  \/ ClientRejoin(NavClients)
  \/ ClientReceive(NavClients)
  \/ ServerReceive

SpecNav == Init /\ [][NextNav]_vars

\* ---- one client whose transport is lost and comes back ----
Reconnecting == {"k1"}

NextReconnect ==
  \/ ClientReconnect(Reconnecting)
  \/ TransportLost(Reconnecting)
  \/ ClientJoinRoom(Reconnecting)
  \/ ClientLeaveRoom(Reconnecting)
  \/ ClientGoToSlide(Reconnecting)
  \/ ClientSetTotalSlides(Reconnecting)
  \/ ClientRejoin(Reconnecting)
  \/ ClientReceive(Reconnecting)
  \/ ServerReceive
  \/ ServerDisconnect

SpecReconnect == Init /\ [][NextReconnect]_vars

\* ---- what the claims speak of ----
DeviceSetOf(rms, r) == IF r \in DOMAIN rms THEN Elems(rms[r]) ELSE {}

RegisteredIn(info, r) == {c \in DOMAIN info : info[c].roomId = r}

DeviceIds(devices) == {devices[i].id : i \in 1..Len(devices)}

IsJoin(ev, c, r) == ev.type = "join-room" /\ ev.conn = c /\ ev.roomId = r

\* C1: in every reachable state a room (an entry of rooms or of roomStates)
\* exists if and only if its device set holds at least one device.
C1_RoomIffDevice ==
  \A r \in Rooms :
    (r \in DOMAIN rooms \/ r \in DOMAIN roomStates) <=> DeviceSetOf(rooms, r) /= {}

\* C2: in every reachable state each connection id is in the device set of
\* at most one room.
C2_AtMostOneRoom ==
  \A c \in Conns : Cardinality({r \in Rooms : c \in DeviceSetOf(rooms, r)}) <= 1

\* C3: whenever an event empties a room's device set the room's state is
\* dropped, and a join-room for a room without devices finds slideIndex 1 and
\* totalSlides 0.
C3_NoResidualState ==
  [][\A r \in Rooms :
       /\ (DeviceSetOf(rooms, r) /= {} /\ DeviceSetOf(rooms', r) = {})
            => r \notin DOMAIN roomStates'
       /\ (lastEvent'.type = "join-room" /\ lastEvent'.roomId = r
             /\ DeviceSetOf(rooms, r) = {})
            => (roomStates'[r].slideIndex = 1 /\ roomStates'[r].totalSlides = 0)]_vars

\* C4: a join-room for a room code that has no room entry creates the room
\* with slideIndex 1 and totalSlides 0, and the slide-sync sent to the joiner
\* (and to the joiner alone) carries exactly these values.
C4_FirstJoinCreatesRoom ==
  [][\A c \in Conns, r \in Rooms :
       (IsJoin(lastEvent', c, r) /\ r \notin DOMAIN rooms)
         => /\ r \in DOMAIN rooms' /\ r \in DOMAIN roomStates'
            /\ roomStates'[r].slideIndex = 1
            /\ roomStates'[r].totalSlides = 0
            /\ \E i \in DOMAIN emitted' :
                 /\ emitted'[i].type = "slide-sync"
                 /\ emitted'[i].to = {c}
                 /\ emitted'[i].roomId = r
                 /\ emitted'[i].slideIndex = 1
                 /\ emitted'[i].totalSlides = 0
            /\ \A i \in DOMAIN emitted' :
                 emitted'[i].type = "slide-sync"
                   => emitted'[i].slideIndex = 1 /\ emitted'[i].totalSlides = 0]_vars

\* witness of C4: c1 alone on the server has just joined A, which it created
W_C4_FirstJoin ==
  /\ IsJoin(lastEvent, "c1", "A")
  /\ conn["c2"] = "new"
  /\ DOMAIN rooms = {"A"} /\ rooms["A"] = <<"c1">>
  /\ roomStates["A"].slideIndex = 1 /\ roomStates["A"].totalSlides = 0
  /\ Len(emitted) = 2
  /\ emitted[1].type = "slide-sync" /\ emitted[1].to = {"c1"}
  /\ emitted[1].slideIndex = 1 /\ emitted[1].totalSlides = 0

\* C5: after a slide-change(R, v) from a device registered in the Active room
\* R, exactly one slide-sync was emitted; it goes to every device registered
\* in R, the sender included, and carries slideIndex v, the stored totalSlides
\* and the sender's id as sourceId.
C5_SlideSyncToAll ==
  (/\ lastEvent.type = "slide-change"
   /\ lastEvent.roomId \in DOMAIN roomStates
   /\ lastEvent.conn \in RegisteredIn(deviceInfo, lastEvent.roomId))
    => /\ Len(emitted) = 1
       /\ emitted[1].type = "slide-sync"
       /\ emitted[1].roomId = lastEvent.roomId
       /\ emitted[1].slideIndex = lastEvent.slideIndex
       /\ emitted[1].totalSlides = roomStates[lastEvent.roomId].totalSlides
       /\ emitted[1].sourceId = lastEvent.conn
       /\ RegisteredIn(deviceInfo, lastEvent.roomId) \subseteq emitted[1].to
       /\ DeviceIds(getConnectedDevices(Srv, lastEvent.roomId)) \subseteq emitted[1].to

\* witness of C5: c2 changed the slide of room A, in which c1 and c2 are registered
W_C5_SlideSync ==
  /\ lastEvent = Event("slide-change", "c2", "A", 2, <<>>)
  /\ RegisteredIn(deviceInfo, "A") = {"c1", "c2"}
  /\ Len(emitted) = 1
  /\ emitted[1].to = {"c1", "c2"}
  /\ emitted[1].slideIndex = 2
  /\ emitted[1].sourceId = "c2"

\* C6: when two slide-change events for the same Active room, with values V1
\* and V2, are processed one after the other, from any devices, the stored
\* slideIndex and the slide-sync last broadcast both equal V2.
C6_LastWriteWins ==
  (/\ prevEvent.type = "slide-change"
   /\ lastEvent.type = "slide-change"
   /\ prevEvent.roomId = lastEvent.roomId
   /\ lastEvent.roomId \in DOMAIN roomStates)
    => /\ roomStates[lastEvent.roomId].slideIndex = lastEvent.slideIndex
       /\ Len(emitted) >= 1
       /\ emitted[Len(emitted)].type = "slide-sync"
       /\ emitted[Len(emitted)].roomId = lastEvent.roomId
       /\ emitted[Len(emitted)].slideIndex = lastEvent.slideIndex

\* witness of C6: c1 sent slide 2, then c2 sent slide 1, both in room A
W_C6_TwoWriters ==
  /\ prevEvent = Event("slide-change", "c1", "A", 2, <<>>)
  /\ lastEvent = Event("slide-change", "c2", "A", 1, <<>>)
  /\ RegisteredIn(deviceInfo, "A") = {"c1", "c2"}
  /\ roomStates["A"].slideIndex = 1
  /\ emitted[1].slideIndex = 1
  /\ emitted[1].to = {"c1", "c2"}

\* every packet sent was handled or delivered, and no lost transport is
\* still to be noticed by the server
Quiescent ==
  \A c \in Conns : c2s[c] = <<>> /\ s2c[c] = <<>> /\ conn[c] /= "closing"

\* C7: once every slide-change sent by goToSlide has been handled by the
\* server and every slide-sync has been delivered, every client registered in
\* a room holds a currentSlide equal to the slideIndex the server stores for
\* that room.
C7_ClientsConverge ==
  Quiescent =>
    \A k \in Clients :
      (Connected(k) /\ sock[k] \in DOMAIN deviceInfo)
        => currentSlide[k] = roomStates[deviceInfo[sock[k]].roomId].slideIndex

\* witness of C7: both clients are registered in A, the slide was changed
\* away from the first slide, nothing is in flight and both clients show it
W_C7_Converged ==
  /\ Quiescent
  /\ \A k \in Clients : Connected(k) /\ sock[k] \in RegisteredIn(deviceInfo, "A")
  /\ roomStates["A"].slideIndex = 2
  /\ \A k \in Clients : currentSlide[k] = 2

\* C8: a connection that is registered in a room never receives a slide-sync
\* or room-updated scoped to another room.
C8_NoCrossRoomBroadcast ==
  \A i \in DOMAIN emitted :
    \A c \in emitted[i].to :
      c \in DOMAIN deviceInfo => deviceInfo[c].roomId = emitted[i].roomId

\* C9: when a connection registered in room A sends join-room for another
\* room B, it leaves A's device set; the first emission is a room-updated for
\* A that omits it, counts one device less than A listed before and reaches
\* every device it lists; the room-updated for B is emitted after it.
C9_OldRoomUpdatedFirst ==
  [][\A c \in Conns, b \in Rooms :
       (IsJoin(lastEvent', c, b) /\ c \in DOMAIN deviceInfo /\ deviceInfo[c].roomId /= b)
         => LET a == deviceInfo[c].roomId
                before == getConnectedDevices(Srv, a)
            IN /\ c \notin DeviceSetOf(rooms', a)
               /\ Len(emitted') = 3
               /\ emitted'[1].type = "room-updated"
               /\ emitted'[1].roomId = a
               /\ c \notin DeviceIds(emitted'[1].devices)
               /\ DeviceIds(emitted'[1].devices) = DeviceIds(before) \ {c}
               /\ emitted'[1].totalDevices = Len(before) - 1
               /\ DeviceIds(emitted'[1].devices) \subseteq emitted'[1].to
               /\ c \notin emitted'[1].to
               /\ emitted'[3].type = "room-updated"
               /\ emitted'[3].roomId = b]_vars

\* witness of C9: c2 went from room A, where c1 stays, to room B
W_C9_Switch ==
  /\ IsJoin(lastEvent, "c2", "B")
  /\ Len(emitted) = 3
  /\ emitted[1].type = "room-updated" /\ emitted[1].roomId = "A"
  /\ emitted[1].to = {"c1"}
  /\ DeviceIds(emitted[1].devices) = {"c1"}
  /\ emitted[1].totalDevices = 1
  /\ emitted[3].type = "room-updated" /\ emitted[3].roomId = "B"
  /\ emitted[3].to = {"c2"}

\* C10: for a connection registered in room A, join-room(B) with B other than
\* A leaves rooms, deviceInfo and roomStates as leave-room(A) followed by
\* join-room(B) does.
C10_JoinIsLeaveThenJoin ==
  \A c \in Conns, b \in Rooms :
    (conn[c] = "open" /\ c \in DOMAIN deviceInfo /\ deviceInfo[c].roomId /= b)
      => LET a == deviceInfo[c].roomId
             direct == onJoinRoom(Srv, c, b, RoleOf(c), NameOf(c)).st
             twoStep == onJoinRoom(onLeaveRoom(Srv, c, a).st, c, b,
                                   RoleOf(c), NameOf(c)).st
         IN /\ direct.rooms = twoStep.rooms
            /\ direct.deviceInfo = twoStep.deviceInfo
            /\ direct.roomStates = twoStep.roomStates

\* the event handled last is of one of the given types and names room r
Handles(ev, types, r) == ev.type \in types /\ ev.roomId = r

\* C11: for an Active room whose stored totalSlides is positive, a
\* set-total-slides event with value 0 or a negative value does not overwrite
\* the stored totalSlides.
C11_NonPositiveTotalKept ==
  [][\A r \in Rooms :
       (/\ Handles(lastEvent', {"set-total-slides"}, r)
        /\ lastEvent'.totalSlides[1] <= 0
        /\ r \in DOMAIN roomStates
        /\ roomStates[r].totalSlides > 0)
         => /\ r \in DOMAIN roomStates'
            /\ roomStates'[r].totalSlides = roomStates[r].totalSlides]_vars

\* C12: for an Active room, slide-change(R, s, t) sets the stored slideIndex
\* to s for every integer s, also beyond totalSlides or below 1, and sets the
\* stored totalSlides to t exactly when t is present and t > 0, leaving it
\* unchanged otherwise.
C12_SlideChangeStores ==
  [][\A r \in Rooms :
       (Handles(lastEvent', {"slide-change"}, r) /\ r \in DOMAIN roomStates)
         => LET t == lastEvent'.totalSlides
            IN /\ r \in DOMAIN roomStates'
               /\ roomStates'[r].slideIndex = lastEvent'.slideIndex
               /\ roomStates'[r].totalSlides =
                    IF t /= <<>> /\ t[1] > 0 THEN t[1] ELSE roomStates[r].totalSlides]_vars

\* witness of C12: room A, whose deck has MaxSlide slides, was sent a slide
\* beyond the deck together with a slide count of 0, and stores that slide
W_C12_BeyondDeck ==
  /\ lastEvent = Event("slide-change", "c2", "A", MaxSlide + 1, <<0>>)
  /\ "A" \in DOMAIN roomStates
  /\ roomStates["A"] = [slideIndex |-> MaxSlide + 1, totalSlides |-> MaxSlide]
  /\ RegisteredIn(deviceInfo, "A") = {"c1", "c2"}

\* C13: a slide-change or set-total-slides event naming a room that has no
\* entry is ignored: no room is created, no stored state of any room changes
\* and no message is sent to any connection.
C13_UnknownRoomIgnored ==
  [][\A r \in Rooms :
       (/\ Handles(lastEvent', {"slide-change", "set-total-slides"}, r)
        /\ r \notin DOMAIN roomStates)
         => /\ rooms' = rooms
            /\ roomStates' = roomStates
            /\ deviceInfo' = deviceInfo
            /\ sioRooms' = sioRooms
            /\ emitted' = <<>>]_vars

\* witness of C13: c1, registered in A whose slide is 2, has just sent a
\* set-total-slides for B, which has no entry; nothing was emitted
W_C13_StaleEvent ==
  /\ lastEvent = Event("set-total-slides", "c1", "B", 0, <<MaxSlide>>)
  /\ DOMAIN rooms = {"A"} /\ DOMAIN roomStates = {"A"}
  /\ roomStates["A"] = [slideIndex |-> 2, totalSlides |-> 0]
  /\ "c1" \in RegisteredIn(deviceInfo, "A")
  /\ emitted = <<>>

\* C14: for a connection registered in room R, a transport disconnect leaves
\* the registry and the room store as an explicit leave-room(R) from that
\* connection would, and emits what it would emit: one room-updated with the
\* reduced device list to the devices remaining in R when there are any, and
\* nothing else.
C14_DisconnectIsLeave ==
  [][\A c \in Conns :
       (lastEvent'.type = "disconnect" /\ lastEvent'.conn = c /\ c \in DOMAIN deviceInfo)
         => LET r == deviceInfo[c].roomId
                left == onLeaveRoom(Srv, c, r)
            IN /\ rooms' = left.st.rooms
               /\ deviceInfo' = left.st.deviceInfo
               /\ roomStates' = left.st.roomStates
               /\ emitted' = left.out
               /\ Len(emitted') <= 1
               /\ \A i \in DOMAIN emitted' :
                    /\ emitted'[i].type = "room-updated"
                    /\ emitted'[i].roomId = r
                    /\ c \notin DeviceIds(emitted'[i].devices)
                    /\ c \notin emitted'[i].to]_vars

\* witness of C14: the transport of c2 was lost while c1 and c2 were in A;
\* c1 was sent the room-updated that lists c1 alone
W_C14_Disconnected ==
  /\ lastEvent = Event("disconnect", "c2", NoRoom, 0, <<>>)
  /\ DOMAIN rooms = {"A"} /\ rooms["A"] = <<"c1">>
  /\ DOMAIN deviceInfo = {"c1"}
  /\ Len(emitted) = 1
  /\ emitted[1].type = "room-updated" /\ emitted[1].roomId = "A"
  /\ emitted[1].to = {"c1"}
  /\ DeviceIds(emitted[1].devices) = {"c1"} /\ emitted[1].totalDevices = 1

\* C15: when a member of room R sends leave-room(R) it is removed from R; if
\* other devices remain, each of them receives a room-updated with the
\* reduced device list and the leaver receives none; if no device remains, no
\* room-updated is emitted at all.
C15_LeaveUpdatesRemaining ==
  [][\A c \in Conns, r \in Rooms :
       (/\ Handles(lastEvent', {"leave-room"}, r)
        /\ lastEvent'.conn = c
        /\ c \in DeviceSetOf(rooms, r))
         => LET remaining == DeviceSetOf(rooms, r) \ {c}
            IN /\ c \notin DeviceSetOf(rooms', r)
               /\ remaining /= {}
                    => /\ Len(emitted') = 1
                       /\ emitted'[1].type = "room-updated"
                       /\ emitted'[1].roomId = r
                       /\ DeviceIds(emitted'[1].devices) = remaining
                       /\ emitted'[1].totalDevices = Cardinality(remaining)
                       /\ remaining \subseteq emitted'[1].to
                       /\ c \notin emitted'[1].to
               /\ remaining = {} => emitted' = <<>>]_vars

\* the positions in out of the emissions of one type
OfType(out, type) == {i \in DOMAIN out : out[i].type = type}

\* C16: on every join-room(R) the joining connection, and no other, receives
\* a slide-sync carrying R's stored slide position and slide count, which the
\* join leaves unchanged when R already existed; and every device registered
\* in R, the joiner included, receives a room-updated for R listing the
\* devices registered in R.
C16_JoinSyncsJoiner ==
  [][\A c \in Conns, r \in Rooms :
       IsJoin(lastEvent', c, r)
         => /\ r \in DOMAIN roomStates'
            /\ r \in DOMAIN roomStates => roomStates'[r] = roomStates[r]
            /\ Cardinality(OfType(emitted', "slide-sync")) = 1
            /\ \A i \in OfType(emitted', "slide-sync") :
                 /\ emitted'[i].to = {c}
                 /\ emitted'[i].roomId = r
                 /\ emitted'[i].slideIndex = roomStates'[r].slideIndex
                 /\ emitted'[i].totalSlides = roomStates'[r].totalSlides
            /\ c \in RegisteredIn(deviceInfo', r)
            /\ \E i \in OfType(emitted', "room-updated") :
                 /\ emitted'[i].roomId = r
                 /\ RegisteredIn(deviceInfo', r) \subseteq emitted'[i].to
                 /\ DeviceIds(emitted'[i].devices) = RegisteredIn(deviceInfo', r)]_vars

JoinsIn(q) == Len(SelectSeq(q, LAMBDA p : p.type = "join-room"))

\* C18: whenever a client that holds a roomId and role becomes connected, on
\* a reconnect as after a createRoom / joinRoom made while disconnected, the
\* rejoin timeout is pending; it stays pending only while the client is
\* connected and holds the room, and when it elapses the client sends
\* join-room with that roomId, its role and its deviceName.  The client never
\* sends join-room while its socket is not connected: none is buffered, and a
\* join-room enters the queue of an open socket of the client only.
C18_RejoinWhenConnected ==
  [][\A k \in Clients :
       /\ (/\ sock'[k] \in Conns
           /\ cRoomId'[k] /= NoRoom
           /\ (sock[k] \notin Conns \/ cRoomId[k] /= cRoomId'[k]))
            => timerArmed'[k]
       /\ timerArmed'[k] => (sock'[k] \in Conns /\ cRoomId'[k] /= NoRoom)
       /\ (/\ timerArmed[k] /\ ~timerArmed'[k]
           /\ sock'[k] = sock[k] /\ cRoomId'[k] = cRoomId[k])
            => c2s'[sock[k]] = Append(c2s[sock[k]], JoinPacket(k, cRoomId[k]))
       /\ JoinsIn(sendBuffer'[k]) = 0
       /\ \A c \in Conns :
            (c \notin {sock[d] : d \in Clients} \/ conn[c] /= "open")
              => JoinsIn(c2s'[c]) <= JoinsIn(c2s[c])]_vars

\* witness of C18: k1 lost the socket c1 and is connected again as c2, on
\* which the server has registered nothing yet; the timeout has elapsed and
\* the join-room for A is on its way, while k1 still shows slide 2
W_C18_Rejoining ==
  /\ conn["c1"] = "closed"
  /\ sock["k1"] = "c2"
  /\ "c2" \notin DOMAIN deviceInfo
  /\ cRoomId["k1"] = "A"
  /\ currentSlide["k1"] = 2
  /\ ~timerArmed["k1"]
  /\ c2s["c2"] = <<JoinPacket("k1", "A")>>

\* client k lost a socket and is connected again; the server has handled
\* its rejoin and what the server sent to it has been delivered
Rejoined(k) ==
  /\ sock[k] \in Conns
  /\ sock[k] \in DOMAIN deviceInfo
  /\ c2s[sock[k]] = <<>>
  /\ s2c[sock[k]] = <<>>
  /\ \E c \in Conns \ {sock[k]} : conn[c] \in {"closing", "closed"}

\* the room state the server stores for the room client k is registered in
StoredFor(k) == roomStates[deviceInfo[sock[k]].roomId]

\* C19 as claimed: after a client has reconnected, its rejoin has been
\* handled by the server and the sync sent on join has been delivered, the
\* client's currentSlide and totalSlides equal the server's stored slideIndex
\* and totalSlides for that room, whether the room survived or was recreated.
C19_ResyncedSlideAndTotal ==
  \A k \in Clients :
    Rejoined(k)
      => /\ currentSlide[k] = StoredFor(k).slideIndex
         /\ cTotalSlides[k] = StoredFor(k).totalSlides

\* C19 as amended: in that situation the client's currentSlide equals the
\* stored slideIndex, and its totalSlides equals the stored totalSlides
\* whenever the stored totalSlides is positive.
C19_ResyncedAfterRejoin ==
  \A k \in Clients :
    Rejoined(k)
      => /\ currentSlide[k] = StoredFor(k).slideIndex
         /\ StoredFor(k).totalSlides > 0
              => cTotalSlides[k] = StoredFor(k).totalSlides

\* witness of C19: k1 lost c1, which the server has not noticed yet, so that
\* room A survived with slide 2 of 2; k1, which went back to slide 1 while it
\* was not connected, is registered again as c2 and shows slide 2 of 2
W_C19_RoomSurvived ==
  /\ Rejoined("k1")
  /\ conn["c1"] = "closing" /\ sock["k1"] = "c2"
  /\ RegisteredIn(deviceInfo, "A") = {"c1", "c2"}
  /\ roomStates["A"] = [slideIndex |-> 2, totalSlides |-> 2]
  /\ currentSlide["k1"] = 2 /\ cTotalSlides["k1"] = 2

\* the event lacks a field its handler requires
Malformed(ev) ==
  \/ ev.type = "join-room" /\ ev.roomId = UndefinedRoom
  \/ ev.type = "slide-change" /\ ev.slideIndex = Undefined
  \/ ev.type = "set-total-slides" /\ ev.totalSlides = <<>>

\* C20: an event whose payload lacks a required field (join-room without
\* roomId, slide-change without slideIndex, set-total-slides without
\* totalSlides) is dropped: it creates no room, changes no stored state,
\* emits nothing, and the sending connection stays registered and connected.
C20_MalformedDropped ==
  [][Malformed(lastEvent')
       => /\ rooms' = rooms
          /\ roomStates' = roomStates
          /\ deviceInfo' = deviceInfo
          /\ sioRooms' = sioRooms
          /\ emitted' = <<>>
          /\ conn' = conn]_vars

\* C21: update-role changes only the role and name of the sender's own
\* registry entry: no room's device set, no other device's entry, not the
\* sender's roomId, no room's slideIndex or totalSlides; when the sender has
\* no registry entry, registry and store are unchanged.
C21_UpdateRoleFrame ==
  [][lastEvent'.type = "update-role"
       => LET c == lastEvent'.conn
          IN /\ rooms' = rooms
             /\ roomStates' = roomStates
             /\ DOMAIN deviceInfo' = DOMAIN deviceInfo
             /\ \A d \in DOMAIN deviceInfo \ {c} : deviceInfo'[d] = deviceInfo[d]
             /\ c \in DOMAIN deviceInfo => deviceInfo'[c].roomId = deviceInfo[c].roomId]_vars

\* witness of C21: c1, which joined A as the stage named N, has just sent
\* update-role naming room B and is now the remote M of room A, next to c2
W_C21_RoleChanged ==
  /\ lastEvent = Event("update-role", "c1", "B", 0, <<>>)
  /\ "c1" \in DOMAIN deviceInfo
  /\ deviceInfo["c1"] = [role |-> "remote", name |-> "M", roomId |-> "A"]
  /\ DeviceSetOf(rooms, "A") = {"c1", "c2"}
  /\ "B" \notin DOMAIN rooms

\* C22: set-total-slides(R, t) on an Active room changes only totalSlides:
\* slideIndex and the device set are unchanged, and every device in R (every
\* device the registry lists for R, every device registered in R) is sent one
\* slide-sync with the unchanged slideIndex and the new totalSlides.
C22_SetTotalFrame ==
  [][\A r \in Rooms :
       (Handles(lastEvent', {"set-total-slides"}, r) /\ r \in DOMAIN roomStates)
         => /\ rooms' = rooms
            /\ deviceInfo' = deviceInfo
            /\ sioRooms' = sioRooms
            /\ DOMAIN roomStates' = DOMAIN roomStates
            /\ \A q \in DOMAIN roomStates \ {r} : roomStates'[q] = roomStates[q]
            /\ roomStates'[r].slideIndex = roomStates[r].slideIndex
            /\ roomStates'[r].totalSlides = lastEvent'.totalSlides[1]
            /\ Len(emitted') = 1
            /\ emitted'[1].type = "slide-sync"
            /\ emitted'[1].roomId = r
            /\ emitted'[1].slideIndex = roomStates[r].slideIndex
            /\ emitted'[1].totalSlides = lastEvent'.totalSlides[1]
            /\ DeviceIds(getConnectedDevices(Srv, r)) \subseteq emitted'[1].to
            /\ RegisteredIn(deviceInfo, r) \subseteq emitted'[1].to]_vars

\* witness of C22: c2 has just set the slide count of room A, which stays at
\* slide 2, and c1 and c2, the devices of A, are sent slide 2 of MaxSlide
W_C22_TotalSet ==
  /\ lastEvent = Event("set-total-slides", "c2", "A", 0, <<MaxSlide>>)
  /\ DeviceSetOf(rooms, "A") = {"c1", "c2"}
  /\ RegisteredIn(deviceInfo, "A") = {"c1", "c2"}
  /\ roomStates["A"] = [slideIndex |-> 2, totalSlides |-> MaxSlide]
  /\ Len(emitted) = 1
  /\ emitted[1].to = {"c1", "c2"}
  /\ emitted[1].slideIndex = 2 /\ emitted[1].totalSlides = MaxSlide

\* the place of x in the duplicate-free sequence q
PlaceIn(q, x) == CHOOSE i \in 1..Len(q) : q[i] = x

\* the devices of the list are in the order of their joinedAt stamps
ByJoinTime(devices) ==
  \A i, j \in 1..Len(devices) :
    i < j => PlaceIn(joinOrder, devices[i].id) < PlaceIn(joinOrder, devices[j].id)

\* C23: the device list of a room, as the registry returns it and as every
\* room-updated carries it, is ordered by each device's recorded join time
\* (joinedAt), after any sequence of joins, re-joins of the same room by the
\* same connection, leaves and disconnects.
C23_ListByJoinTime ==
  \A r \in DOMAIN rooms : ByJoinTime(getConnectedDevices(Srv, r))

\* every room of the store has slideIndex >= 1 and totalSlides >= 0
InRange(states) ==
  \A r \in DOMAIN states : states[r].slideIndex >= 1 /\ states[r].totalSlides >= 0

\* the slideIndex the event carries, if any, is >= 1 and the totalSlides it
\* carries, if any, is >= 0
InRangePayload(ev) ==
  /\ ev.type = "slide-change" => ev.slideIndex >= 1
  /\ (ev.type \in {"slide-change", "set-total-slides"} /\ ev.totalSlides /= <<>>)
       => ev.totalSlides[1] >= 0

\* C24 as claimed: in every reachable state, for any sequence of protocol
\* events with integer payloads, every existing room has slideIndex >= 1 and
\* totalSlides >= 0.
C24_RoomsInRange == InRange(roomStates)

\* C24 as amended: an event whose slideIndex, if it carries one, is >= 1 and
\* whose totalSlides, if it carries one, is >= 0 takes a store in which every
\* room has slideIndex >= 1 and totalSlides >= 0 to such a store; the store is
\* empty initially, so the range holds after any sequence of such events.
C24_InRangeKept ==
  [][(InRange(roomStates) /\ InRangePayload(lastEvent')) => InRange(roomStates')]_vars

\* witness of C24: room A, in range, was sent slide MaxSlide + 1 and a count
\* of MaxSlide by c1 and stores both
W_C24_InRangeEvent ==
  /\ lastEvent = Event("slide-change", "c1", "A", MaxSlide + 1, <<MaxSlide>>)
  /\ "A" \in DOMAIN roomStates
  /\ roomStates["A"] = [slideIndex |-> MaxSlide + 1, totalSlides |-> MaxSlide]
  /\ InRange(roomStates)

\* C25: in every reachable state the two registry structures agree: a
\* connection id is in the device set of room R if and only if deviceInfo
\* holds an entry for that id whose roomId is R.
C25_RegistryAgrees ==
  \A r \in Rooms, c \in Conns :
    c \in DeviceSetOf(rooms, r) <=> c \in RegisteredIn(deviceInfo, r)

\* C26: a leave-room(X) sent by a connection that is not registered in room X
\* (it is registered in another room, or in none) changes nothing: the
\* sender's registry entry, every room's device set and every room's state
\* are as before, and the sender stays in the socket.io room of the room it
\* is registered in.
C26_ForeignLeaveIgnored ==
  [][\A r \in Rooms :
       LET c == lastEvent'.conn
       IN (Handles(lastEvent', {"leave-room"}, r) /\ c \notin RegisteredIn(deviceInfo, r))
            => /\ deviceInfo' = deviceInfo
               /\ rooms' = rooms
               /\ roomStates' = roomStates
               /\ c \in DOMAIN deviceInfo => deviceInfo[c].roomId \in sioRooms'[c]]_vars

\* C27: after any sequence of events, once every connection that ever
\* connected has disconnected, the server holds no state: rooms, roomStates
\* and deviceInfo are all empty.
C27_NothingLeftBehind ==
  (\A c \in Conns : conn[c] \in {"new", "closed"})
    => /\ DOMAIN rooms = {}
       /\ DOMAIN roomStates = {}
       /\ DOMAIN deviceInfo = {}

\* C28: in every reachable state the device-set map and the room-state map
\* have the same keys: a room has a device set if and only if it has a state
\* record.
C28_SameKeys == DOMAIN rooms = DOMAIN roomStates

\* witness of C28: rooms A and B existed; c2, the only device of B, has just
\* left it, and both maps now hold A alone
W_C28_RoomDeleted ==
  /\ lastEvent = Event("leave-room", "c2", "B", 0, <<>>)
  /\ DOMAIN rooms = {"A"} /\ DOMAIN roomStates = {"A"}
  /\ DeviceSetOf(rooms, "A") = {"c1"}
  /\ "c2" \notin DOMAIN deviceInfo
  /\ emitted = <<>>

\* C29: every room-updated emitted for room R lists exactly the connections
\* in R's device set at that moment, each once and with its current role and
\* name, has totalDevices equal to the size of that set, and is delivered to
\* exactly those connections.
C29_RoomUpdatedExact ==
  \A i \in 1..Len(emitted) :
    emitted[i].type = "room-updated"
      => LET e == emitted[i]
             ds == DeviceSetOf(rooms, e.roomId)
         IN /\ DeviceIds(e.devices) = ds
            /\ Len(e.devices) = Cardinality(ds)
            /\ e.totalDevices = Cardinality(ds)
            /\ e.to = ds
            /\ \A j \in 1..Len(e.devices) :
                 /\ e.devices[j].id \in DOMAIN deviceInfo
                 /\ e.devices[j] = DeviceEntry(deviceInfo, e.devices[j].id)

\* this step is the server handling a join-room of connection c for room r
JoinHandled(c, r) ==
  /\ conn' = conn
  /\ c2s[c] /= <<>>
  /\ Head(c2s[c]).type = "join-room" /\ Head(c2s[c]).roomId = r
  /\ c2s'[c] = Tail(c2s[c])

\* this step is the server handling the disconnect of connection c
DisconnectHandled(c) == conn[c] = "closing" /\ conn'[c] = "closed"

\* this step is the client of socket c handling a slide-sync
SyncHandled(k, c) ==
  /\ sock[k] = c /\ sock'[k] = c
  /\ s2c[c] /= <<>>
  /\ Head(s2c[c]).type = "slide-sync"
  /\ s2c'[c] = Tail(s2c[c])

\* C30: when the only device of room R reconnects under a new connection id,
\* the outcome depends on the order in which the server handles the two
\* events.  Disconnect first: R is destroyed and the join recreates it with
\* slideIndex 1, and the client's currentSlide is 1 after the join sync.
\* Join first: R keeps its slideIndex and totalSlides and, once the disconnect
\* is handled, holds exactly one device, the new id.
C30_ReconnectOrder ==
  [][\A r \in ClientRooms, old \in Conns, new \in Conns :
     new /= old =>
       /\ (/\ DisconnectHandled(old)
           /\ old \in RegisteredIn(deviceInfo, r)
           /\ DeviceSetOf(rooms, r) = {old})
            => (r \notin DOMAIN rooms' /\ r \notin DOMAIN roomStates')
       /\ (JoinHandled(new, r) /\ conn[old] = "closed" /\ r \notin DOMAIN rooms)
            => /\ r \in DOMAIN rooms' /\ r \in DOMAIN roomStates'
               /\ roomStates'[r] = [slideIndex |-> 1, totalSlides |-> 0]
               /\ DeviceSetOf(rooms', r) = {new}
               /\ conn[new] = "open"
                    => /\ Len(s2c'[new]) = Len(s2c[new]) + 2
                       /\ s2c'[new][Len(s2c[new]) + 1].type = "slide-sync"
                       /\ s2c'[new][Len(s2c[new]) + 1].slideIndex = 1
       /\ \A k \in Clients :
            SyncHandled(k, new) => currentSlide'[k] = Head(s2c[new]).slideIndex
       /\ (/\ JoinHandled(new, r)
           /\ conn[old] = "closing"
           /\ old \in RegisteredIn(deviceInfo, r)
           /\ DeviceSetOf(rooms, r) = {old})
            => /\ r \in DOMAIN roomStates'
               /\ roomStates'[r] = roomStates[r]
               /\ DeviceSetOf(rooms', r) = {old, new}
       /\ (/\ DisconnectHandled(old)
           /\ old \in RegisteredIn(deviceInfo, r)
           /\ DeviceSetOf(rooms, r) = {old, new})
            => /\ r \in DOMAIN roomStates'
               /\ roomStates'[r] = roomStates[r]
               /\ DeviceSetOf(rooms', r) = {new}
               /\ RegisteredIn(deviceInfo', r) = {new}]_vars

\* witness of C30, disconnect first: k1, which had a deck of MaxSlide slides
\* in room A as c1, is back as c2 after the server closed c1; A was recreated
\* at slide 1 with c2 as its one device and k1 shows slide 1
W_C30_Recreated ==
  /\ conn["c1"] = "closed" /\ sock["k1"] = "c2"
  /\ DOMAIN rooms = {"A"} /\ DeviceSetOf(rooms, "A") = {"c2"}
  /\ roomStates["A"] = [slideIndex |-> 1, totalSlides |-> 0]
  /\ currentSlide["k1"] = 1 /\ cTotalSlides["k1"] = MaxSlide
  /\ c2s["c2"] = <<>> /\ s2c["c2"] = <<>>

\* C31: join-room is idempotent for a connection already registered in the
\* same room: a repeated join-room(R) leaves R's device set, device count,
\* slideIndex and totalSlides unchanged and only overwrites that connection's
\* role and name entry.
C31_RejoinIdempotent ==
  [][\A r \in Rooms :
       LET c == lastEvent'.conn
       IN (Handles(lastEvent', {"join-room"}, r) /\ c \in RegisteredIn(deviceInfo, r))
            => /\ rooms' = rooms
               /\ roomStates' = roomStates
               /\ sioRooms' = sioRooms
               /\ DOMAIN deviceInfo' = DOMAIN deviceInfo
               /\ \A d \in DOMAIN deviceInfo \ {c} : deviceInfo'[d] = deviceInfo[d]
               /\ deviceInfo'[c].roomId = r]_vars

\* witness of C31: c1, the first device of room A, has joined A again after
\* c2, now a teleprompter, joined: c1 is the stage named N, still the first of
\* the set, and its join stamp is now the later one
W_C31_JoinedAgain ==
  /\ lastEvent = Event("join-room", "c1", "A", 0, <<>>)
  /\ "A" \in DOMAIN rooms /\ rooms["A"] = <<"c1", "c2">>
  /\ joinOrder = <<"c2", "c1">>
  /\ deviceInfo["c1"] = [role |-> "stage", name |-> "N", roomId |-> "A"]
  /\ deviceInfo["c2"].role = "teleprompter"

\* C32: a slide-change naming an Active room R is applied and broadcast
\* whether or not the sender is registered in R: a connected device that is
\* not registered in R overwrites R's slideIndex, the devices registered in R
\* are sent the slide-sync, and the sender is sent nothing.
C32_OutsiderSlideChange ==
  [][\A r \in Rooms :
       LET c == lastEvent'.conn
       IN (/\ Handles(lastEvent', {"slide-change"}, r)
           /\ r \in DOMAIN roomStates
           /\ c \notin RegisteredIn(deviceInfo, r))
            => /\ r \in DOMAIN roomStates'
               /\ roomStates'[r].slideIndex = lastEvent'.slideIndex
               /\ Len(emitted') = 1
               /\ emitted'[1].type = "slide-sync"
               /\ emitted'[1].roomId = r
               /\ emitted'[1].slideIndex = lastEvent'.slideIndex
               /\ RegisteredIn(deviceInfo, r) \subseteq emitted'[1].to
               /\ c \notin emitted'[1].to]_vars

\* the leave-room packet of room r
LeavePacket(r) == Packet("leave-room", r, 0, <<>>, "", "")

\* C33: when a client in a room calls leaveRoom it sends leave-room for that
\* room (on a socket that is not connected the packet waits for the next
\* connect), its local state is reset (roomId null, currentSlide 1,
\* totalSlides 0) and a pending auto-rejoin is cancelled; while it holds no
\* room, also across reconnects, no auto-rejoin is pending and it sends no
\* join-room.
C33_LeaveResetsClient ==
  [][\A k \in Clients :
       /\ (cRoomId[k] /= NoRoom /\ cRoomId'[k] = NoRoom)
            => /\ IF sock[k] \in Conns
                  THEN c2s'[sock[k]] = Append(c2s[sock[k]], LeavePacket(cRoomId[k]))
                  ELSE sendBuffer'[k] = Append(sendBuffer[k], LeavePacket(cRoomId[k]))
               /\ currentSlide'[k] = 1
               /\ cTotalSlides'[k] = 0
               /\ ~timerArmed'[k]
       /\ cRoomId'[k] = NoRoom
            => /\ ~timerArmed'[k]
               /\ JoinsIn(sendBuffer'[k]) = 0
       /\ (cRoomId[k] = NoRoom /\ cRoomId'[k] = NoRoom)
            => \A c \in Conns :
                 (c = sock[k] \/ c = sock'[k]) => JoinsIn(c2s'[c]) <= JoinsIn(c2s[c])]_vars

\* witness of C33: k1 left room A while its socket c1 was lost; it is
\* connected again as c2, the leave-room that waited has gone out, and it
\* holds no room, has no rejoin pending and is not registered
W_C33_LeftWhileOffline ==
  /\ conn["c1"] \in {"closing", "closed"} /\ sock["k1"] = "c2"
  /\ cRoomId["k1"] = NoRoom /\ currentSlide["k1"] = 1 /\ cTotalSlides["k1"] = 0
  /\ ~timerArmed["k1"]
  /\ c2s["c2"] = <<LeavePacket("A")>>
  /\ "c2" \notin DOMAIN deviceInfo

\* C34: every slide-change that goToSlide sends carries a slideIndex >= 1
\* and, when the client's known totalSlides is > 0, a slideIndex <=
\* totalSlides; nextSlide sends nothing when currentSlide has reached a known
\* positive totalSlides, and prevSlide sends nothing when currentSlide is 1
\* or less.
C34_ClientClamps ==
  \A k \in NavClients :
    /\ cRoomId[k] /= NoRoom
         => \A v \in WideSlides :
              /\ GoToSlidePacket(k, v).slideIndex >= 1
              /\ cTotalSlides[k] > 0 => GoToSlidePacket(k, v).slideIndex <= cTotalSlides[k]
    /\ (cTotalSlides[k] > 0 /\ currentSlide[k] >= cTotalSlides[k])
         => nextSlide(currentSlide[k], cTotalSlides[k]) = <<>>
    /\ currentSlide[k] <= 1 => prevSlide(currentSlide[k]) = <<>>

\* witness of C34: k1, which knows a deck of MaxSlide slides, shows slide
\* MaxSlide + 1, which it chose before it knew the size of the deck; its
\* goToSlide(0) would send slide 1 and its nextSlide sends nothing
W_C34_BeyondKnownDeck ==
  /\ cRoomId["k1"] = "A" /\ cTotalSlides["k1"] = MaxSlide
  /\ currentSlide["k1"] = MaxSlide + 1
  /\ GoToSlidePacket("k1", 0).slideIndex = 1
  /\ nextSlide(currentSlide["k1"], cTotalSlides["k1"]) = <<>>
  /\ prevSlide(currentSlide["k1"]) = <<MaxSlide>>

\* C35: annotation-data is relayed as annotation-received, tagged with the
\* sender's connection id, to every device in the named room except the
\* sender; clear-annotations is relayed as annotations-cleared to every
\* device in the named room, the sender included; neither changes any room's
\* stored state or any device set.
C35_AnnotationsRelayed ==
  [][\A r \in Rooms :
       LET c == lastEvent'.conn
           devices == RegisteredIn(deviceInfo, r) \cup DeviceIds(getConnectedDevices(Srv, r))
       IN /\ Handles(lastEvent', {"annotation-data", "clear-annotations"}, r)
               => /\ rooms' = rooms
                  /\ roomStates' = roomStates
                  /\ deviceInfo' = deviceInfo
                  /\ sioRooms' = sioRooms
                  /\ Len(emitted') = 1
                  /\ emitted'[1].roomId = r
                  /\ emitted'[1].slideIndex = lastEvent'.slideIndex
          /\ Handles(lastEvent', {"annotation-data"}, r)
               => /\ emitted'[1].type = "annotation-received"
                  /\ emitted'[1].totalSlides = lastEvent'.totalSlides[1]
                  /\ emitted'[1].sourceId = c
                  /\ devices \ {c} \subseteq emitted'[1].to
                  /\ c \notin emitted'[1].to
          /\ Handles(lastEvent', {"clear-annotations"}, r)
               => /\ emitted'[1].type = "annotations-cleared"
                  /\ devices \subseteq emitted'[1].to]_vars

\* witness of C35: c1 sent a stroke for slide MaxSlide to room A, in which c1
\* and c2 are registered; it went to c2 alone, tagged c1
W_C35_StrokeRelayed ==
  /\ lastEvent = Event("annotation-data", "c1", "A", MaxSlide, <<1>>)
  /\ RegisteredIn(deviceInfo, "A") = {"c1", "c2"}
  /\ Len(emitted) = 1
  /\ emitted[1].type = "annotation-received"
  /\ emitted[1].to = {"c2"}
  /\ emitted[1].sourceId = "c1"
  /\ emitted[1].slideIndex = MaxSlide /\ emitted[1].totalSlides = 1

====
